---- MODULE Spec2Model ----
(***************************************************************************)
(* A model of inference/huggingface/run_generation_batch.py: the latency   *)
(* reporter print_latency and the part of main that prepares the prompts,  *)
(* runs the generation loop and hands the collected samples to the         *)
(* reporter.                                                               *)
(*                                                                         *)
(* Numbers.  A latency sample is a natural number of clock ticks, with     *)
(* TicksPerSecond ticks to the second; a quantity in seconds (or in        *)
(* milliseconds) is an exact fraction <<numerator, denominator>>.  The     *)
(* script computes in binary floating point; the model computes exactly.   *)
(* The truncated ranks int((count - 1) * q + 1) of the five quantiles agree *)
(* with exact arithmetic for every count up to 200000.                     *)
(*                                                                         *)
(* Lists.  A Python list is an object: objs maps the name of a list object *)
(* to its contents, and a program variable that holds a list holds the     *)
(* name of an object, so that aliasing and in-place mutation are visible.  *)
(***************************************************************************)
EXTENDS Integers, Sequences, FiniteSets, TLC

\* ------------------------------------------------------------------ bounds
MaxLen == 4
MaxValue == 3
MaxWarmup == 2
MaxCalls == 2
MaxLong == 104
MaxPrompts == 3
MaxSample == 2
TicksPerSecond == 1000

\* ------------------------------------------------- constants of the script
DefaultWarmup == 1
DefaultTitle == ""

Titles == {DefaultTitle, "gpt2"}

MODEL_CLASSES ==
    {"t5", "opt", "gpt2", "gptneo", "ctrl", "openai-gpt", "xlnet", "transfo-xl", "xlm"}

PREPROCESSING_FUNCTIONS == {"ctrl", "xlm", "xlnet", "transfo-xl"}

\* The five quantiles of lines 166-170, in thousandths: 0.5, 0.9, 0.95, 0.99, 0.999.
Quantiles == <<500, 900, 950, 990, 999>>

\* The labels of the statistic lines 180-185, in the order they are printed.
Labels == <<"Avg", "P50", "P90", "P95", "P99", "999">>

\* The first argument of the print call of line 179.
HeaderText == "====== latency stats {0} ======"

Unbound == "<unbound>"

\* ----------------------------------------------------------------- state
VARIABLES
    objs,             \* the list objects: caller's list and the slice's copy
    title,            \* print_latency's parameter title
    warmup,           \* print_latency's parameter warmup
    latency_set,      \* the object print_latency's variable latency_set names
    count,            \* print_latency's local count
    ranks,            \* int(n50) - 1, ..., int(n999) - 1 (0-based indices)
    stats,            \* <<avg, p50, p90, p95, p99, p999>>, fractions of a second
    plpc,             \* print_latency's position
    calls,            \* how many times print_latency was entered
    stdout,           \* the lines printed, one sequence of lines per call
    error,            \* the exception that ended the program, or "none"
    pc,               \* main's position
    model_type,       \* args.model_type
    prefix,           \* args.prefix
    padding_text,     \* args.padding_text
    prompt_text,      \* main's prompt_text
    prompt_count,     \* main's prompt_count
    preprocessed_prompt_text,  \* the name main never binds
    eprompt,          \* main's eprompt
    consumed,         \* how many prompts the preparation loop has taken
    i                 \* the generation loop's index

plvars == <<objs, title, warmup, latency_set, count, ranks, stats, plpc, calls, stdout>>
mainvars == <<pc, model_type, prefix, padding_text, prompt_text, prompt_count,
              preprocessed_prompt_text, eprompt, consumed, i>>
vars == <<plvars, error, mainvars>>

\* ------------------------------------------------------- Python primitives
\* A variant of the slice that drops the last w entries instead.
SliceTail(s, w) == SubSeq(s, 1, Len(s) - w)

\* s[w:] for w >= 0: a new list holding s without its first w entries.
Slice(s, w) == SubSeq(s, w + 1, Len(s))

\* list.sort(): a stable ascending sort.  StableRank(s, j) is the position the
\* entry at index j takes: after every smaller entry and every equal entry
\* that came before it.
StableRank(s, j) ==
    Cardinality({m \in 1..Len(s) : s[m] < s[j] \/ (s[m] = s[j] /\ m <= j)})

\* A variant that leaves the list in recorded order.
ListSortUnsorted(s) == s

\* list.sort(): position k receives the entry whose stable rank is k.
ListSort(s) ==
    LET rank == <<>> \o [j \in 1..Len(s) |-> StableRank(s, j)]
    IN  [k \in 1..Len(s) |-> s[CHOOSE j \in 1..Len(s) : rank[j] = k]]

\* sum(s): the entries added up.  The additions are exact here, so they are
\* grouped by halves, which keeps the recursion shallow on long lists.
RECURSIVE SumRange(_, _, _)
SumRange(s, lo, hi) ==
    IF lo > hi THEN 0
    ELSE IF lo = hi THEN s[lo]
    ELSE LET mid == (lo + hi) \div 2
         IN  SumRange(s, lo, mid) + SumRange(s, mid + 1, hi)

Sum(s) == SumRange(s, 1, Len(s))

\* s[k] for a 0-based Python index k: a negative k counts from the end, and
\* an index outside the list raises IndexError.
IndexOk(s, k) == -Len(s) <= k /\ k < Len(s)

ListIndex(s, k) == IF k >= 0 THEN s[k + 1] ELSE s[Len(s) + k + 1]

\* int(x) of a fraction n/d with d > 0: truncation towards zero.
Trunc(n, d) == IF n >= 0 THEN n \div d ELSE -((-n) \div d)

\* ----------------------------------------------- print_latency, the parts
\* A variant in which the slice is a view of the list it was taken from.
SliceTargetAlias(src) == src

\* Line 162: slicing builds a new list object; the variable is rebound to it.
SliceTarget(src) == "local"

\* A variant of the guard that lets an empty retained set through.
HasSamplesLoose(c) == c >= 0

\* Line 164: the report is computed only for a non-empty retained set.
HasSamples(c) == c > 0

\* A variant that rounds the rank to the nearest integer: int(n + 0.5).
RankNearest(c, q) == Trunc(2 * (c - 1) * q + 3000, 2000)

\* Lines 166-170 and the int(...) of lines 173-177:
\* int((count - 1) * q + 1), with q in thousandths.
Rank(c, q) == Trunc((c - 1) * q + 1000, 1000)

\* A variant that uses the 1-based rank as the index.
PercentileIndexOffByOne(c, q) == Rank(c, q)

\* Lines 173-177: the 0-based index int(n) - 1.
PercentileIndex(c, q) == Rank(c, q) - 1

\* A variant that divides by one more than the count.
MeanOffByOne(s, c) == <<Sum(s), (c + 1) * TicksPerSecond>>

\* Line 172: sum(latency_set) / count, in seconds.
Mean(s, c) == <<Sum(s), c * TicksPerSecond>>

\* A sample, in seconds.
Seconds(t) == <<t, TicksPerSecond>>

\* Lines 180-185: x * 1000, seconds to milliseconds.
ToMillis(x) == <<x[1] * 1000, x[2]>>

\* n/d rounded to the nearest integer, ties to even (n >= 0, d > 0).
RoundHalfEven(n, d) ==
    LET f == n \div d
        r == 2 * (n % d)
    IN  IF r < d THEN f
        ELSE IF r > d THEN f + 1
        ELSE IF f % 2 = 0 THEN f ELSE f + 1

Digit == <<"0", "1", "2", "3", "4", "5", "6", "7", "8", "9">>

RECURSIVE NatStr(_)
NatStr(n) == IF n < 10 THEN Digit[n + 1] ELSE NatStr(n \div 10) \o Digit[(n % 10) + 1]

RECURSIVE NumDigits(_)
NumDigits(n) == IF n < 10 THEN 1 ELSE 1 + NumDigits(n \div 10)

RECURSIVE Spaces(_)
Spaces(n) == IF n <= 0 THEN "" ELSE " " \o Spaces(n - 1)

\* "{0:8.2f}".format(x) for a fraction x >= 0: two decimals, right-aligned
\* in a field of at least 8 characters.
Format82f(x) ==
    LET h == RoundHalfEven(100 * x[1], x[2])
    IN  Spaces(8 - (NumDigits(h \div 100) + 3))
            \o NatStr(h \div 100) \o "." \o Digit[((h % 100) \div 10) + 1]
            \o Digit[(h % 10) + 1]

\* Lines 180-185: one statistic line.
StatLine(label, x) == "\t" \o label \o " Latency: " \o Format82f(ToMillis(x)) \o " ms"

\* Line 179: print(a, b) writes its arguments separated by one space.
HeaderLine(t) == HeaderText \o " " \o t

\* A variant that prints the header after the statistics.
ReportLinesStatsFirst(t, st) ==
    [k \in 1..6 |-> StatLine(Labels[k], st[k])] \o <<HeaderLine(t)>>

\* Lines 179-185: the seven print calls, in order.
ReportLines(t, st) ==
    <<HeaderLine(t)>> \o [k \in 1..6 |-> StatLine(Labels[k], st[k])]

\* Lines 166-177 on a sorted, non-empty list.
StatsOf(sorted, c) ==
    <<Mean(sorted, c)>> \o
    [k \in 1..5 |-> Seconds(ListIndex(sorted, PercentileIndex(c, Quantiles[k])))]

\* print_latency as a whole, on a call that raises nothing: what it prints.
PrintLatencyOutput(s, t, w) ==
    LET ls == Slice(s, w)
        c == Len(ls)
    IN  IF HasSamples(c) THEN ReportLines(t, StatsOf(ListSort(ls), c)) ELSE <<>>

\* ------------------------------------------- print_latency, step by step
\* Line 160: the call binds latency_set to the caller's list object.
Enter ==
    /\ plpc = "idle"
    /\ error = "none"
    /\ plpc' = "slice"
    /\ latency_set' = "caller"
    /\ calls' = calls + 1
    /\ stdout' = Append(stdout, <<>>)
    /\ UNCHANGED <<objs, title, warmup, count, ranks, stats, error>>

\* Lines 162-163: latency_set = latency_set[warmup:]; count = len(latency_set).
PLSlice ==
    /\ plpc = "slice"
    /\ LET tgt == SliceTarget(latency_set)
           kept == Slice(objs[latency_set], warmup)
       IN  /\ objs' = [objs EXCEPT ![tgt] = kept]
           /\ latency_set' = tgt
           /\ count' = Len(kept)
    /\ plpc' = "test"
    /\ UNCHANGED <<title, warmup, ranks, stats, calls, stdout, error, mainvars>>

\* Line 164, count > 0 false: the function falls off its end.
PLSkip ==
    /\ plpc = "test"
    /\ ~HasSamples(count)
    /\ plpc' = "return"
    /\ UNCHANGED <<objs, title, warmup, latency_set, count, ranks, stats, calls,
                   stdout, error, mainvars>>

\* Lines 164-165, count > 0: latency_set.sort(), in place.
PLSort ==
    /\ plpc = "test"
    /\ HasSamples(count)
    /\ objs' = [objs EXCEPT ![latency_set] = ListSort(objs[latency_set])]
    /\ plpc' = "stats"
    /\ UNCHANGED <<title, warmup, latency_set, count, ranks, stats, calls, stdout,
                   error, mainvars>>

\* Lines 166-177: the ranks, the mean and the five lookups.  The division of
\* line 172 raises on a zero count, a lookup raises on an index outside the list.
PLStats ==
    /\ plpc = "stats"
    /\ LET ls == objs[latency_set]
           ix == [k \in 1..5 |-> PercentileIndex(count, Quantiles[k])]
       IN  /\ ranks' = ix
           /\ IF count = 0
              THEN /\ error' = "ZeroDivisionError"
                   /\ plpc' = "raised"
                   /\ stats' = stats
              ELSE IF \E k \in 1..5 : ~IndexOk(ls, ix[k])
              THEN /\ error' = "IndexError"
                   /\ plpc' = "raised"
                   /\ stats' = stats
              ELSE /\ error' = error
                   /\ plpc' = "print"
                   /\ stats' = StatsOf(ls, count)
    /\ UNCHANGED <<objs, title, warmup, latency_set, count, calls, stdout, mainvars>>

\* Lines 179-185: the header, then the six statistic lines.
PLPrint ==
    /\ plpc = "print"
    /\ stdout' = [stdout EXCEPT ![Len(stdout)] = @ \o ReportLines(title, stats)]
    /\ plpc' = "return"
    /\ UNCHANGED <<objs, title, warmup, latency_set, count, ranks, stats, calls,
                   error, mainvars>>

\* The implicit return None.
PLReturn ==
    /\ plpc = "return"
    /\ plpc' = "idle"
    /\ UNCHANGED <<objs, title, warmup, latency_set, count, ranks, stats, calls,
                   stdout, error, mainvars>>

\* A caller that holds a list invokes print_latency(latencies, title, warmup),
\* and may invoke it again on the same list with the same arguments.
Call ==
    /\ pc = "caller"
    /\ calls < MaxCalls
    /\ Enter
    /\ UNCHANGED mainvars

\* ------------------------------------------------------------ main's steps
\* Lines 132, 138 and 346: args.prefix if args.prefix else args.padding_text.
PrefixOf(p, pad) == IF p # "" THEN p ELSE pad

\* tokenizer.encode(text, ...): the token ids of text (an external library).
Encode(text) == [ids_of |-> text]

\* Lines 332-335, a model type with a preprocessing function: the loop body
\* begins by evaluating preprocessed_prompt_text.append, and no statement of the
\* script binds that name, so the first iteration raises NameError.
MainPreprocess ==
    /\ pc = "prepare"
    /\ model_type \in PREPROCESSING_FUNCTIONS
    /\ consumed < prompt_count
    /\ preprocessed_prompt_text = Unbound
    /\ error' = "NameError"
    /\ pc' = "raised"
    /\ UNCHANGED <<plvars, model_type, prefix, padding_text, prompt_text, prompt_count,
                   preprocessed_prompt_text, eprompt, consumed, i>>

\* Lines 345-348, any other model type: one iteration of the encoding loop.
MainEncode ==
    /\ pc = "prepare"
    /\ model_type \notin PREPROCESSING_FUNCTIONS
    /\ consumed < prompt_count
    /\ eprompt' = Append(eprompt,
                         Encode(PrefixOf(prefix, padding_text) \o prompt_text[consumed + 1]))
    /\ consumed' = consumed + 1
    /\ UNCHANGED <<plvars, error, pc, model_type, prefix, padding_text, prompt_text,
                   prompt_count, preprocessed_prompt_text, i>>

\* Either loop of lines 334-348 has run out of prompts.
MainPrepared ==
    /\ pc = "prepare"
    /\ consumed = prompt_count
    /\ pc' = "replicate"
    /\ UNCHANGED <<plvars, error, model_type, prefix, padding_text, prompt_text,
                   prompt_count, preprocessed_prompt_text, eprompt, consumed, i>>

\* Lines 351-354: prompt_text = prompt_text[-1] raises IndexError on an empty
\* list of prompts; otherwise latencies = [] and the loop starts.
MainReplicate ==
    /\ pc = "replicate"
    /\ IF IndexOk(prompt_text, -1)
       THEN /\ prompt_text' = <<ListIndex(prompt_text, -1)>>
            /\ objs' = [objs EXCEPT !["caller"] = <<>>]
            /\ i' = 0
            /\ pc' = "loop"
            /\ error' = error
       ELSE /\ error' = "IndexError"
            /\ pc' = "raised"
            /\ UNCHANGED <<prompt_text, objs, i>>
    /\ UNCHANGED <<title, warmup, latency_set, count, ranks, stats, plpc, calls, stdout,
                   model_type, prefix, padding_text, prompt_count,
                   preprocessed_prompt_text, eprompt, consumed>>

\* Lines 356-371: one iteration of the generation loop appends one sample.
MainGenerate ==
    /\ pc = "loop"
    /\ i < prompt_count
    /\ \E t \in 1..MaxSample :
          objs' = [objs EXCEPT !["caller"] = Append(@, t)]
    /\ i' = i + 1
    /\ UNCHANGED <<title, warmup, latency_set, count, ranks, stats, plpc, calls, stdout,
                   error, pc, model_type, prefix, padding_text, prompt_text,
                   prompt_count, preprocessed_prompt_text, eprompt, consumed>>

\* Line 377: print_latency(latencies), once range(prompt_count) is exhausted.
MainReport ==
    /\ pc = "loop"
    /\ i = prompt_count
    /\ Enter
    /\ pc' = "report"
    /\ UNCHANGED <<model_type, prefix, padding_text, prompt_text, prompt_count,
                   preprocessed_prompt_text, eprompt, consumed, i>>

\* Line 378: return generated_sequences.
MainReturn ==
    /\ pc = "report"
    /\ plpc = "idle"
    /\ pc' = "done"
    /\ UNCHANGED <<plvars, error, model_type, prefix, padding_text, prompt_text,
                   prompt_count, preprocessed_prompt_text, eprompt, consumed, i>>

\* --------------------------------------------------------- specifications
SeqsUpTo(S, n) == UNION {[1..m -> S] : m \in 0..n}

PLIdle ==
    /\ latency_set = "caller"
    /\ count = 0
    /\ ranks = <<>>
    /\ stats = <<>>
    /\ plpc = "idle"
    /\ calls = 0
    /\ stdout = <<>>
    /\ error = "none"

NoMain ==
    /\ pc = "caller"
    /\ model_type = "gpt2"
    /\ prefix = ""
    /\ padding_text = ""
    /\ prompt_text = <<>>
    /\ prompt_count = 0
    /\ preprocessed_prompt_text = Unbound
    /\ eprompt = <<>>
    /\ consumed = 0
    /\ i = 0

\* print_latency called on every short list of samples.
Init ==
    /\ objs \in [caller : SeqsUpTo(1..MaxValue, MaxLen), local : {<<>>}]
    /\ title \in Titles
    /\ warmup \in 0..MaxWarmup
    /\ PLIdle
    /\ NoMain

Next == Call \/ PLSlice \/ PLSkip \/ PLSort \/ PLStats \/ PLPrint \/ PLReturn

Spec == Init /\ [][Next]_vars

\* Long lists of distinct samples: ascending, descending and interleaved.
Shapes == {"ascending", "descending", "interleaved"}

Shaped(shape, n) ==
    [j \in 1..n |->
        IF shape = "ascending" THEN j
        ELSE IF shape = "descending" THEN n + 1 - j
        ELSE IF j % 2 = 1 THEN (j + 1) \div 2 ELSE n + 1 - (j \div 2)]

InitLong ==
    /\ \E n \in 0..MaxLong, shape \in Shapes :
          objs = [caller |-> Shaped(shape, n), local |-> <<>>]
    /\ title = DefaultTitle
    /\ warmup \in {0, DefaultWarmup}
    /\ PLIdle
    /\ NoMain

SpecLong == InitLong /\ [][Next]_vars

\* main, from line 327 on, for every supported model type.
PromptLines == {"Hello", "DeepSpeed is"}

PrefixArgs == {<<"", "">>, <<"> ", "">>, <<"", "~ ">>}

InitMain ==
    /\ objs = [caller |-> <<>>, local |-> <<>>]
    /\ title = DefaultTitle
    /\ warmup = DefaultWarmup
    /\ PLIdle
    /\ pc = "prepare"
    /\ model_type \in MODEL_CLASSES
    /\ \E pa \in PrefixArgs : prefix = pa[1] /\ padding_text = pa[2]
    /\ prompt_text \in SeqsUpTo(PromptLines, MaxPrompts)
    /\ prompt_count = Len(prompt_text)
    /\ preprocessed_prompt_text = Unbound
    /\ eprompt = <<>>
    /\ consumed = 0
    /\ i = 0

NextMain ==
    \/ MainPreprocess \/ MainEncode \/ MainPrepared \/ MainReplicate
    \/ MainGenerate \/ MainReport \/ MainReturn
    \/ PLSlice \/ PLSkip \/ PLSort \/ PLStats \/ PLPrint \/ PLReturn

SpecMain == InitMain /\ [][NextMain]_vars

\* ------------------------------------------------------------ properties
\* The caller's list, and what the claims call the retained samples: the
\* caller's list without its first warmup entries, in recorded order.
Samples == objs.caller

Retained == SubSeq(Samples, warmup + 1, Len(Samples))

\* Call k has returned.
Completed(k) == k <= calls /\ (k < calls \/ plpc = "idle")

\* The locals of the latest call hold its statistics.
StatsReady == calls >= 1 /\ plpc \in {"print", "return", "idle"} /\ Len(Retained) > 0

\* a and b hold the same values the same number of times.
SameBag(a, b) ==
    /\ Len(a) = Len(b)
    /\ \A j \in 1..Len(a) :
          Cardinality({m \in 1..Len(a) : a[m] = a[j]})
              = Cardinality({m \in 1..Len(b) : b[m] = a[j]})

\* v is the entry at 0-based index k of s arranged in ascending order.
IsKthSmallest(s, k, v) ==
    /\ \E m \in 1..Len(s) : s[m] = v
    /\ Cardinality({m \in 1..Len(s) : s[m] < v}) <= k
    /\ k < Cardinality({m \in 1..Len(s) : s[m] <= v})

\* floor((c - 1) * p / 100 + 1) - 1, with p / 100 given in thousandths.
FloorIndex(c, q) == (((c - 1) * q + 1000) \div 1000) - 1

\* A statistic line as the interface describes it: tab, label, the value in
\* milliseconds with two decimals.
LineOf(label, ms) == "\t" \o label \o " Latency: " \o Format82f(ms) \o " ms"

Permuted(s, f) == [j \in 1..Len(s) |-> s[f[j]]]

\* Every arrangement of the entries of s.
Arrangements(s) == {Permuted(s, f) : f \in Permutations(1..Len(s))}

\* C1: when the list holds no more than warmup samples, a call prints nothing,
\* raises nothing and never reaches the sort, the statistics or the printing.
C1_NoOutputWithinWarmup ==
    (calls >= 1 /\ Len(Samples) <= warmup) =>
        /\ \A k \in 1..Len(stdout) : stdout[k] = <<>>
        /\ error = "none"
        /\ plpc \in {"slice", "test", "return", "idle"}

C1_Witness ==
    /\ Completed(1)
    /\ warmup >= 1
    /\ Len(Samples) = warmup
    /\ stdout[1] = <<>>

\* C2: each reported percentile is the entry at 0-based index
\* floor((count - 1) * p / 100 + 1) - 1 of the retained samples in ascending
\* order, itself and not an interpolation, and its line prints that entry in
\* milliseconds; one retained sample gives that sample five times, five retained
\* samples give the 3rd smallest as P50 and the 4th smallest as P90.
C2_PercentileIsFloorRankEntry ==
    StatsReady =>
        LET c == Len(Retained)
        IN  /\ \A k \in 1..5 :
                  /\ stats[k + 1][2] = TicksPerSecond
                  /\ IsKthSmallest(Retained, FloorIndex(c, Quantiles[k]), stats[k + 1][1])
                  /\ plpc # "print" =>
                        stdout[calls][k + 2]
                            = LineOf(Labels[k + 1], <<1000 * stats[k + 1][1], TicksPerSecond>>)
            /\ c = 1 => \A k \in 1..5 : stats[k + 1][1] = Retained[1]
            /\ c = 5 => /\ IsKthSmallest(Retained, 2, stats[2][1])
                        /\ IsKthSmallest(Retained, 3, stats[3][1])

C2_Witness ==
    /\ Completed(1)
    /\ warmup = 1
    /\ Len(Retained) >= 102
    /\ Samples[1] > Samples[2]
    /\ Cardinality({stats[k + 1][1] : k \in 1..5}) = 5

\* C3, as claimed: every permutation of the samples gives the same output.
C3_AnyPermutationSameOutput ==
    (calls = 1 /\ plpc = "idle") =>
        \A other \in Arrangements(Samples) :
            PrintLatencyOutput(other, title, warmup) = stdout[1]

\* C3, amended: a permutation of the samples gives the same output whenever the
\* entries after the first warmup are the same values the same number of times
\* (every permutation, when warmup = 0 or warmup >= len).
C3_SameRetainedSameOutput ==
    (calls = 1 /\ plpc = "idle") =>
        \A other \in Arrangements(Samples) :
            SameBag(SubSeq(other, warmup + 1, Len(other)), Retained)
                => PrintLatencyOutput(other, title, warmup) = stdout[1]

C3_Witness ==
    /\ calls = 1 /\ plpc = "idle"
    /\ warmup >= 1
    /\ Len(Retained) >= 2
    /\ stdout[1] # <<>>
    /\ \E other \in Arrangements(Samples) :
          /\ SubSeq(other, warmup + 1, Len(other)) # Retained
          /\ SameBag(SubSeq(other, warmup + 1, Len(other)), Retained)

\* C4: right after the slice, and before the sort, latency_set is the caller's
\* list without its first warmup entries, in recorded order, and count is its
\* length; the sort rearranges those entries and no others.
C4_RetainedIsSuffixByPosition ==
    /\ plpc = "test" =>
          /\ objs[latency_set] = Retained
          /\ count = (IF Len(Samples) > warmup THEN Len(Samples) - warmup ELSE 0)
    /\ plpc \in {"stats", "print", "return"} =>
          /\ SameBag(objs[latency_set], Retained)
          /\ count = Len(Retained)

C4_Witness ==
    /\ plpc = "stats"
    /\ warmup = 1
    /\ Len(Samples) >= 3
    /\ \A m \in 1..Len(objs[latency_set]) : objs[latency_set][m] > Samples[1]
    /\ objs[latency_set] # Retained

\* C5: the reported average is the sum of the retained samples over their number,
\* times 1000; the warm-up entries enter neither the sum nor the divisor.
C5_AverageOfRetained ==
    StatsReady =>
        /\ stats[1][1] * (Len(Retained) * TicksPerSecond) = Sum(Retained) * stats[1][2]
        /\ warmup = 0 =>
              stats[1][1] * (Len(Samples) * TicksPerSecond) = Sum(Samples) * stats[1][2]
        /\ plpc # "print" =>
              stdout[calls][2]
                  = LineOf("Avg", <<1000 * Sum(Retained), Len(Retained) * TicksPerSecond>>)

C5_Witness ==
    /\ Completed(1)
    /\ warmup >= 1
    /\ Len(Retained) >= 2
    /\ Sum(Samples) * Len(Retained) # Sum(Retained) * Len(Samples)
    /\ Len(stdout[1]) = 7

\* C6: no step of print_latency changes the caller's list, and whenever a call
\* has returned, every call so far has printed what the first call printed.
C6_SecondCallSameOutput ==
    [][/\ objs'.caller = objs.caller
       /\ plpc' = "idle" => \A k \in 1..Len(stdout') : stdout'[k] = stdout'[1]]_vars

C6_Witness ==
    /\ Completed(2)
    /\ warmup >= 1
    /\ stdout[2] # <<>>
    /\ Samples # ListSort(Samples)

\* C7: a call on a non-empty retained set prints seven lines: the header with the
\* title, then the Avg, P50, P90, P95, P99 and 99.9 lines in that order, each with
\* its statistic times 1000; nothing is printed before all seven are.
C7_SevenLinesInOrder ==
    (calls >= 1 /\ Len(Retained) > 0) =>
        /\ plpc \in {"slice", "test", "stats", "print"} => stdout[calls] = <<>>
        /\ \A c \in 1..calls :
              Completed(c) \/ (c = calls /\ plpc = "return") =>
                  /\ Len(stdout[c]) = 7
                  /\ stdout[c][1] = "====== latency stats {0} ====== " \o title
                  /\ \A k \in 1..6 :
                        stdout[c][k + 1]
                            = LineOf(<<"Avg", "P50", "P90", "P95", "P99", "999">>[k],
                                     <<1000 * stats[k][1], stats[k][2]>>)

C7_Witness ==
    /\ Completed(1)
    /\ title # ""
    /\ Len(Retained) >= 3
    /\ Len(stdout[1]) = 7
    /\ stats[2] # stats[3]

\* C8: no call raises, and every index used for a percentile lookup equals
\* floor((count - 1) * p / 100 + 1) - 1 and lies in 0..count-1.
C8_IndicesWithinBounds ==
    /\ error = "none"
    /\ plpc # "raised"
    /\ (plpc \in {"print", "return"} /\ Len(Retained) > 0) =>
          \A k \in 1..5 :
              /\ ranks[k] = FloorIndex(count, Quantiles[k])
              /\ 0 <= ranks[k]
              /\ ranks[k] <= count - 1
              /\ count = Len(Retained)

C8_Witness ==
    /\ plpc = "print"
    /\ count >= 102
    /\ ranks[5] = count - 2
    /\ ranks[4] < ranks[5]
    /\ error = "none"

\* C9: the loop appends one sample per iteration; when main has ended,
\* print_latency has been entered exactly once, with a list of prompt_count
\* samples and warmup 1, so that it reported on prompt_count - 1 samples.
C9_ReportedOnceAfterAllSamples ==
    /\ pc = "loop" => Len(Samples) = i
    /\ calls >= 1 => (calls = 1 /\ Len(Samples) = prompt_count /\ warmup = DefaultWarmup)
    /\ (pc \in {"done", "raised"} \/ error # "none") =>
          /\ calls = 1
          /\ Len(Samples) = prompt_count
          /\ stdout = <<(IF prompt_count <= 1 THEN <<>>
                         ELSE PrintLatencyOutput(Samples, DefaultTitle, DefaultWarmup))>>

\* C10: main raises nothing while prompts remain to be prepared, for a model
\* type with a preprocessing function as for any other, and once the prompts
\* are prepared there is one encoded prompt for each.
C10_PreparationProceeds ==
    /\ consumed < prompt_count => error = "none"
    /\ pc \in {"replicate", "loop", "report", "done"} => Len(eprompt) = prompt_count

====
